---- MODULE Spec2Model ----
(***************************************************************************)
(* Verification model of dev_brag: the GitHub data-retrieval service       *)
(* (services/githubService.ts: Pager, Event Fetchers, Detail Enricher,     *)
(* Repository Catalog Loader), the Repository Reconciler and the other     *)
(* handlers of App.tsx, the Timeline Aggregator of                         *)
(* components/ActivityChart.tsx, and the RepoSelector and PRList           *)
(* components.                                                             *)
(*                                                                         *)
(* Each component has its own specification over the shared variables:     *)
(*   SpecPager      fetchUserPullRequests / fetchUserCommits driving       *)
(*                  fetchSearchPages, with pages of 0..100 items           *)
(*   SpecCatalog    fetchUserRepositories against a provider listing       *)
(*   SpecEnrich     fetchUserPullRequests with concurrent detail fetches   *)
(*   SpecReconcile  the filter step of handleFetchStats                    *)
(*   SpecTimeline   the chartData computation of ActivityChart             *)
(*   SpecApp        App: login, fetch cycles, report generation, logout    *)
(*   SpecAppLive    SpecApp with every request eventually answered         *)
(*   SpecSelector   RepoSelector: search filter and "Toggle Visible"       *)
(*   SpecPRList     PRList: search filter and pagination                   *)
(***************************************************************************)
EXTENDS Integers, Sequences, FiniteSets, TLC

VARIABLES
    \* ---- one call of a githubService function ----
    fn,             \* the function called: "none" before the call
    username,       \* its username argument
    maxPages,       \* the maxPages argument handed to fetchSearchPages
    pc,             \* position of the call: idle, awaitPage, awaitDetails,
                    \*   returned, thrown
    currentPage,    \* fetchSearchPages: currentPage
    allItems,       \* fetchSearchPages: allItems
    prsToEnrich,    \* fetchUserPullRequests: basicPRs.slice(0, 20)
    restPRs,        \* fetchUserPullRequests: basicPRs.slice(20)
    enrichedPRs,    \* the results of the detail promises, by position
    pending,        \* positions whose detail promise has not settled
    result,         \* the value the call returned (when pc = "returned")
    error,          \* the message of the Error it threw (when pc = "thrown")
    \* ---- the network, as seen from the service ----
    pageRequests,   \* page numbers requested, in request order
    responses,      \* page responses received, in order: [status, len]
    detailRequests, \* api_url of every detail request issued, in order
    detailFailed,   \* positions whose detail fetch answered non-2xx or rejected
    \* ---- fetchUserRepositories and the provider's repository listing ----
    visible,        \* number of repositories the provider lists for the identity
    repoCeiling,    \* pages the loader reads at most (the constant of its loop)
    page,           \* fetchUserRepositories: page
    allRepos,       \* fetchUserRepositories: allRepos
    repoRequests,   \* pages of /user/repos requested, in request order
    \* ---- App ----
    state,          \* the AppState of App's useState
    cycles,         \* the handleFetchStats calls awaiting their Promise.all:
                    \*   the state each closure captured and which of its
                    \*   two fetches have resolved
    last,           \* the inputs of the cycle that wrote state.prs and
                    \*   state.commits last (history, not program state)
    \* ---- ActivityChart: one evaluation of the chartData callback ----
    tz,             \* the host's time zone: local time = UTC + tz hours
    startDate,      \* props.startDate
    endDate,        \* props.endDate
    chartPrs,       \* created_at of props.prs, in order
    chartCommits,   \* date of props.commits, in order
    chartPc,        \* position of the callback: props, walk, fill, done, thrown
    isMonthly,      \* isMonthly
    current,        \* current.getTime()
    endTarget,      \* endTarget.getTime()
    loops,          \* loops
    dataMap,        \* dataMap: its values in insertion order
    grid,           \* dataMap as the grid walk left it (history)
    chartData,      \* the sequence the callback returned
    \* ---- App: the other asynchronous handlers ----
    logins,         \* the handleLogin calls at one of their awaits: the token
                    \*   the closure captured, the await, the user fetched
    reports,        \* the handleGenerateReport calls awaiting generateSelfReview
    superseded,     \* for each element of cycles: a cycle started after it
                    \*   has written state.prs and state.commits (history)
    \* ---- RepoSelector ----
    filteredRepos,  \* filteredRepos: the repositories matching search
    clicked,        \* the control of RepoSelector used last (history)
    \* ---- PRList ----
    listPrs,        \* props.prs
    listSearch,     \* search
    listPage        \* currentPage (named currentPage in the component)

svcVars == <<fn, username, maxPages, pc, currentPage, allItems, prsToEnrich,
             restPRs, enrichedPRs, pending, result, error, pageRequests,
             responses, detailRequests, detailFailed>>

catVars == <<visible, repoCeiling, page, allRepos, repoRequests>>

appVars == <<state, cycles, last>>

chartVars == <<tz, startDate, endDate, chartPrs, chartCommits, chartPc, isMonthly,
               current, endTarget, loops, dataMap, grid, chartData>>

uiVars == <<logins, reports, superseded, filteredRepos, clicked, listPrs, listSearch, listPage>>

vars == <<svcVars, catVars, appVars, chartVars, uiVars>>

----------------------------------------------------------------------------
(* Program constants *)

\* per_page=100 in the search URLs and the `items.length < 100` test
PerPage == 100

\* fetchSearchPages(url, headers, 10) of the current service
SearchMaxPages == 10

\* fetchSearchPages(url, headers, 2) of the earlier service variant
SearchMaxPagesV1 == 2

\* basicPRs.slice(0, 20)
EnrichLimit == 20

\* while (page <= 3) of fetchUserRepositories
RepoMaxPages == 3

\* the earlier fetchUserRepositories: one request, no loop
RepoMaxPagesV1 == 1

(* Bounds *)

\* the network delivers the detail responses out of order by at most
\* this many places: the next to arrive is among the DetailWindow earliest
\* requested of those outstanding
DetailWindow == 2

\* at most this many detail fetches of a call fail
MaxDetailFailures == 1

\* the provider lists at most this many repositories
MaxVisible == 301

\* a fetch cycle receives at most this many PRs
MaxPrs == 2

\* a fetch cycle receives at most this many commits
MaxCommits == 2

\* the chart is given at most this many PRs and as many commits
MaxChartItems == 1

\* at most this many fetch cycles are in flight
MaxCycles == 2

\* at most this many logins are in flight
MaxLogins == 1

\* at most this many report generations are in flight
MaxReports == 1

\* PRList is given at most this many PRs
MaxListPrs == 16

(* Inputs *)

Usernames == {"", "octocat"}

\* page lengths the provider answers with: empty, short, one below full, full
PageLens == {0, 40, 99, 100}

\* statuses of a failed page request; 0 stands for fetch() itself rejecting
FailStatuses == {0, 401, 403, 404, 422, 500}

\* the status of a page the provider serves
OkStatuses == {200}

----------------------------------------------------------------------------
(* Helpers on sequences *)

Min(a, b) == IF a < b THEN a ELSE b

\* Array.prototype.slice(from, to) with 0-based from (inclusive), to (exclusive)
Slice(s, from, to) == SubSeq(s, from + 1, Min(to, Len(s)))

----------------------------------------------------------------------------
(* The provider's data.  An item is identified by where the provider served *)
(* it: item i of page p carries number (p-1)*PerPage + i, so that a        *)
(* dropped, repeated or misplaced item is visible in a result.             *)

\* a raw item of /search/issues: the fields the service reads
RawIssue(k) == [id |-> k, url |-> <<"pulls", k>>]

\* a raw item of /search/commits
RawCommit(k) == [sha |-> k]

RawItem(f, k) == IF f = "fetchUserPullRequests" THEN RawIssue(k) ELSE RawCommit(k)

\* data.items of the response to page p when it has n items
PageItems(f, p, n) == [i \in 1..n |-> RawItem(f, (p - 1) * PerPage + i)]

\* the additions/deletions the detail endpoint reports for a PR
DetailOf(url) == [additions |-> url[2] + 1, deletions |-> url[2]]

----------------------------------------------------------------------------
(* handleErrors: the message of the Error it throws for a response, or    *)
(* NoError when it returns.                                               *)

NoError == ""

\* response.ok: the status is in the range 200-299
Ok(status) == 200 <= status /\ status <= 299

\* response.statusText for the statuses the model serves
StatusText(status) ==
    CASE status = 401 -> "Unauthorized"
      [] status = 403 -> "Forbidden"
      [] status = 404 -> "Not Found"
      [] status = 422 -> "Unprocessable Entity"
      [] status = 500 -> "Internal Server Error"
      [] OTHER -> ""

\* mutant: every non-ok response gives the generic error
handleErrors_Generic(status) ==
    IF Ok(status) THEN NoError ELSE "GitHub API Error: " \o StatusText(status)

\* handleErrors of the current service
handleErrors(status) ==
    IF Ok(status) THEN NoError
    ELSE IF status = 403 THEN "GitHub API rate limit exceeded. Please try again later."
    ELSE IF status = 401 THEN "Invalid GitHub Token."
    ELSE IF status = 422 THEN "Validation Failed. Try a shorter date range."
    ELSE "GitHub API Error: " \o StatusText(status)

\* handleErrors of the earlier service variant: no case for 422
handleErrorsV1(status) ==
    IF Ok(status) THEN NoError
    ELSE IF status = 403 THEN "GitHub API rate limit exceeded."
    ELSE IF status = 401 THEN "Invalid GitHub Token."
    ELSE "GitHub API Error: " \o StatusText(status)

\* what `await handleErrors(response)` after `await fetch(...)` throws for a
\* request answered with status (0: fetch() itself rejects with its
\* TypeError), in the earlier variant (v1) or the current one; NoError when
\* nothing is thrown
FailureMessage(v1, status) ==
    IF status = 0 THEN "Failed to fetch"
    ELSE IF v1 THEN handleErrorsV1(status) ELSE handleErrors(status)

----------------------------------------------------------------------------
(* Normalisation of raw items *)

\* item => ({ id: item.id, ..., api_url: item.url, ... }) of fetchUserPullRequests
BasicPR(item) == [id |-> item.id, api_url |-> item.url]

\* items.map(...) of fetchUserPullRequests
BasicPRs(items) == [i \in DOMAIN items |-> BasicPR(items[i])]

\* item => ({ sha: item.sha, ... }) of fetchUserCommits
CommitOf(item) == [sha |-> item.sha]

\* items.map(...) of fetchUserCommits
CommitsOf(items) == [i \in DOMAIN items |-> CommitOf(items[i])]

\* { ...pr, additions: details.additions, deletions: details.deletions }
Enriched(pr, details) ==
    [id |-> pr.id, api_url |-> pr.api_url,
     additions |-> details.additions, deletions |-> details.deletions]

IsEnriched(pr) == "additions" \in DOMAIN pr

----------------------------------------------------------------------------
(* The decisions of fetchSearchPages and of the fetchers *)

\* mutant: the username check left out
UsernameMissing_Unchecked(u) == FALSE

\* `!username`: the empty string is the only falsy username
UsernameMissing(u) == u = ""

\* mutant: the short-page break taken before the page is appended
Accumulate_BreakFirst(all, items) ==
    IF Len(items) < PerPage THEN all ELSE all \o items

\* if (items.length === 0) break; allItems = [...allItems, ...items]
Accumulate(all, items) == IF Len(items) = 0 THEN all ELSE all \o items

\* mutant: only the empty page ends the loop
Breaks_OnlyEmpty(n) == n = 0

\* one of the two breaks of the loop body is taken for a page of n items:
\* if (items.length === 0) break; ... if (items.length < 100) break;
Breaks(n) == n = 0 \/ n < PerPage

\* mutant: the loop written while (true), without the page ceiling
MorePages_NoCeiling(n, p, mp) == ~Breaks(n)

\* the loop goes on to page p + 1: no break was taken, and after currentPage++
\* the test currentPage <= maxPages holds
MorePages(n, p, mp) == ~Breaks(n) /\ p + 1 <= mp

----------------------------------------------------------------------------
(* The state before any call *)

SvcInit ==
    /\ fn = "none"
    /\ username = ""
    /\ maxPages = 0
    /\ pc = "idle"
    /\ currentPage = 0
    /\ allItems = <<>>
    /\ prsToEnrich = <<>>
    /\ restPRs = <<>>
    /\ enrichedPRs = <<>>
    /\ pending = {}
    /\ result = <<>>
    /\ error = ""
    /\ pageRequests = <<>>
    /\ responses = <<>>
    /\ detailRequests = <<>>
    /\ detailFailed = {}

\* fetchUserRepositories not called; the provider lists nothing
CatInit ==
    /\ visible = 0
    /\ repoCeiling = 0
    /\ page = 0
    /\ allRepos = <<>>
    /\ repoRequests = <<>>

----------------------------------------------------------------------------
(* App *)

\* null, for the nullable string fields of AppState
Null == "null"

\* state.user === null
NoUser == [isNull |-> TRUE, login |-> ""]

\* no cycle has written state.prs and state.commits yet
NoCycle ==
    [done |-> FALSE, allPrs |-> <<>>, allCommits |-> <<>>, repositories |-> <<>>,
     selectedRepoIds |-> {}]

\* the initial AppState of useState
AppInit ==
    /\ state = [step |-> "login", user |-> NoUser, githubToken |-> "",
                repositories |-> <<>>, selectedRepoIds |-> {}, status |-> "idle",
                error |-> Null, prs |-> <<>>, commits |-> <<>>,
                generatedReport |-> Null]
    /\ cycles = <<>>
    /\ last = NoCycle

\* no login and no report generation under way; RepoSelector and PRList not
\* rendered
UiInit ==
    /\ logins = <<>>
    /\ reports = <<>>
    /\ superseded = <<>>
    /\ filteredRepos = <<>>
    /\ clicked = "none"
    /\ listPrs = <<>>
    /\ listSearch = <<>>
    /\ listPage = 1

\* ActivityChart not rendered: no evaluation of the chartData callback
ChartInit ==
    /\ tz = 0
    /\ startDate = <<>>
    /\ endDate = <<>>
    /\ chartPrs = <<>>
    /\ chartCommits = <<>>
    /\ chartPc = "props"
    /\ isMonthly = FALSE
    /\ current = 0
    /\ endTarget = 0
    /\ loops = 0
    /\ dataMap = <<>>
    /\ grid = <<>>
    /\ chartData = <<>>

----------------------------------------------------------------------------
(* fetchUserPullRequests / fetchUserCommits up to their first await:       *)
(* the username check, then fetchSearchPages entering its loop and        *)
(* requesting page 1.                                                      *)

CallFetcher(f, u, mp) ==
    /\ pc = "idle"
    /\ fn' = f
    /\ username' = u
    /\ IF UsernameMissing(u)
       THEN \* if (!username) throw new Error('Username is required')
            /\ pc' = "thrown"
            /\ error' = "Username is required"
            /\ UNCHANGED <<maxPages, currentPage, pageRequests>>
       ELSE \* let currentPage = 1; while (currentPage <= maxPages) { fetch(...)
            /\ maxPages' = mp
            /\ currentPage' = 1
            /\ 1 <= mp
            /\ pc' = "awaitPage"
            /\ pageRequests' = Append(pageRequests, 1)
            /\ UNCHANGED error
    /\ UNCHANGED <<allItems, prsToEnrich, restPRs, enrichedPRs, pending, result,
                   responses, detailRequests, detailFailed>>

\* mutant: the limit is forgotten and every PR is enriched
ToEnrich_All(basicPRs) == basicPRs

\* const prsToEnrich = basicPRs.slice(0, 20)
ToEnrich(basicPRs) == Slice(basicPRs, 0, EnrichLimit)

(* What the fetcher does with the items fetchSearchPages returned.         *)
(* fetchUserCommits maps and returns.  fetchUserPullRequests maps, splits *)
(* at EnrichLimit and issues one detail fetch per item of the prefix, all  *)
(* in the same turn (the async callbacks of map run up to their await);    *)
(* Promise.all of no promises resolves at once.                            *)
AfterPaging(items) ==
    IF fn = "fetchUserCommits"
    THEN /\ result' = CommitsOf(items)
         /\ pc' = "returned"
         /\ UNCHANGED <<prsToEnrich, restPRs, enrichedPRs, pending, detailRequests>>
    ELSE LET basicPRs == BasicPRs(items)
             toEnrich == ToEnrich(basicPRs)
             rest     == Slice(basicPRs, EnrichLimit, Len(basicPRs))
         IN  /\ prsToEnrich' = toEnrich
             /\ restPRs' = rest
             /\ enrichedPRs' = toEnrich
             /\ pending' = DOMAIN toEnrich
             /\ detailRequests' =
                    detailRequests \o [i \in DOMAIN toEnrich |-> toEnrich[i].api_url]
             /\ IF toEnrich = <<>>
                THEN result' = toEnrich \o rest /\ pc' = "returned"
                ELSE pc' = "awaitDetails" /\ UNCHANGED result

(* fetchSearchPages: a 2xx response to the page request carrying n items,  *)
(* and the loop up to the next fetch or the return.                        *)
PageResponse(n) ==
    /\ pc = "awaitPage"
    /\ FailureMessage(maxPages = SearchMaxPagesV1, 200) = NoError
    /\ responses' = Append(responses, [status |-> 200, len |-> n])
    /\ LET items == PageItems(fn, currentPage, n)
           acc   == Accumulate(allItems, items)
           more  == MorePages(n, currentPage, maxPages)
       IN  /\ allItems' = acc
           /\ currentPage' = IF Breaks(n) THEN currentPage ELSE currentPage + 1
           /\ IF more
              THEN /\ pageRequests' = Append(pageRequests, currentPage + 1)
                   /\ UNCHANGED <<pc, prsToEnrich, restPRs, enrichedPRs, pending,
                                  result, detailRequests>>
              ELSE /\ UNCHANGED pageRequests
                   /\ AfterPaging(acc)
    /\ UNCHANGED <<fn, username, maxPages, error, detailFailed>>

\* mutant: the failure is swallowed and the pages read so far are returned
PageFailure_ReturnPartial(status) ==
    /\ pc = "awaitPage"
    /\ responses' = Append(responses, [status |-> status, len |-> 0])
    /\ pc' = "returned"
    /\ result' = allItems
    /\ UNCHANGED <<fn, username, maxPages, currentPage, allItems, prsToEnrich,
                   restPRs, enrichedPRs, pending, error, pageRequests,
                   detailRequests, detailFailed>>

(* fetchSearchPages: the page request fails.  handleErrors (or fetch)      *)
(* throws, nothing catches it inside fetchSearchPages, and the fetcher's   *)
(* catch rethrows new Error(error.message || ...).                         *)
PageFailure(status) ==
    /\ pc = "awaitPage"
    /\ FailureMessage(maxPages = SearchMaxPagesV1, status) # NoError
    /\ responses' = Append(responses, [status |-> status, len |-> 0])
    /\ pc' = "thrown"
    /\ error' = FailureMessage(maxPages = SearchMaxPagesV1, status)
    /\ UNCHANGED <<fn, username, maxPages, currentPage, allItems, prsToEnrich,
                   restPRs, enrichedPRs, pending, result, pageRequests,
                   detailRequests, detailFailed>>

\* mutant: a failed detail fetch rejects its promise, Promise.all rejects
\* and the catch of fetchUserPullRequests rethrows
DetailSettle_FailFast(i, outcome) ==
    /\ pc = "awaitDetails"
    /\ i \in pending
    /\ LET pr   == prsToEnrich[i]
           done == [enrichedPRs EXCEPT ![i] = Enriched(pr, DetailOf(pr.api_url))]
       IN  IF outcome = "ok"
           THEN /\ enrichedPRs' = done
                /\ pending' = pending \ {i}
                /\ IF pending \ {i} = {}
                   THEN result' = done \o restPRs /\ pc' = "returned"
                   ELSE UNCHANGED <<result, pc>>
                /\ UNCHANGED <<error, detailFailed>>
           ELSE /\ pc' = "thrown"
                /\ error' = "Failed to fetch pull requests"
                /\ detailFailed' = detailFailed \cup {i}
                /\ UNCHANGED <<enrichedPRs, pending, result>>
    /\ UNCHANGED <<fn, username, maxPages, currentPage, allItems, prsToEnrich,
                   restPRs, pageRequests, responses, detailRequests>>

\* mutant: the values are collected in the order the promises settle
Slot_ArrivalOrder(i, pend) == Len(prsToEnrich) - Cardinality(pend) + 1

\* Promise.all resolves with the values in the order of the promises it was
\* given, whatever the order they settle in: the value of the promise made
\* for position i is at position i
Slot(i, pend) == i

(* One detail promise of the Promise.all settles: the response to the      *)
(* detail fetch of position i (1-based here, i-1 in the code).  outcome is *)
(* "ok" (detailsRes.ok and its json read), "not_ok" (a non-2xx status:     *)
(* return pr) or "reject" (fetch or json() rejects: the catch returns pr). *)
(* When the last one settles the function returns                          *)
(* [...enrichedPRs, ...restPRs].                                           *)
DetailSettle(i, outcome) ==
    /\ pc = "awaitDetails"
    /\ i \in pending
    /\ LET pr   == prsToEnrich[i]
           out  == IF outcome = "ok" THEN Enriched(pr, DetailOf(pr.api_url)) ELSE pr
           done == [enrichedPRs EXCEPT ![Slot(i, pending)] = out]
       IN  /\ enrichedPRs' = done
           /\ pending' = pending \ {i}
           /\ IF pending \ {i} = {}
              THEN result' = done \o restPRs /\ pc' = "returned"
              ELSE UNCHANGED <<result, pc>>
    /\ detailFailed' = IF outcome = "ok" THEN detailFailed ELSE detailFailed \cup {i}
    /\ UNCHANGED <<fn, username, maxPages, currentPage, allItems, prsToEnrich,
                   restPRs, error, pageRequests, responses, detailRequests>>

\* the lowest `window` positions still pending: the responses that may
\* arrive next when the network reorders at most `window` - 1 responses
Earliest(window) ==
    {i \in pending : Cardinality({j \in pending : j < i}) < window}

----------------------------------------------------------------------------
(* SpecPager: both fetchers, every sequence of page lengths of PageLens    *)
(* and every failure; the detail fetches succeed and answer in order.      *)

PagerCall ==
    /\ \E f \in {"fetchUserPullRequests", "fetchUserCommits"}, u \in Usernames,
          mp \in {SearchMaxPages, SearchMaxPagesV1} : CallFetcher(f, u, mp)
    /\ UNCHANGED <<catVars, appVars, chartVars, uiVars>>

PagerPage ==
    /\ \E n \in PageLens : PageResponse(n)
    /\ UNCHANGED <<catVars, appVars, chartVars, uiVars>>

PagerFailure ==
    /\ \E st \in FailStatuses \cup OkStatuses : PageFailure(st)
    /\ UNCHANGED <<catVars, appVars, chartVars, uiVars>>

PagerDetail ==
    /\ \E i \in Earliest(1) : DetailSettle(i, "ok")
    /\ UNCHANGED <<catVars, appVars, chartVars, uiVars>>

NextPager ==
    \/ PagerCall
    \/ PagerPage
    \/ PagerFailure
    \/ PagerDetail

InitPager == SvcInit /\ CatInit /\ AppInit /\ ChartInit /\ UiInit

SpecPager == InitPager /\ [][NextPager]_vars

(* SpecEnrich: fetchUserPullRequests on a single page of 0 to 25 PRs, the  *)
(* detail responses arriving out of order within DetailWindow and up to    *)
(* MaxDetailFailures of them failing.                                      *)

\* numbers of PRs the search returns: none, fewer than the limit, one below
\* the limit, the limit, one above, and 25
EnrichLens == {0, 3, 19, 20, 21, 25}

EnrichCall ==
    /\ CallFetcher("fetchUserPullRequests", "octocat", SearchMaxPages)
    /\ UNCHANGED <<catVars, appVars, chartVars, uiVars>>

EnrichPage ==
    /\ \E n \in EnrichLens : PageResponse(n)
    /\ UNCHANGED <<catVars, appVars, chartVars, uiVars>>

EnrichDetailOk ==
    /\ \E i \in Earliest(DetailWindow) : DetailSettle(i, "ok")
    /\ UNCHANGED <<catVars, appVars, chartVars, uiVars>>

EnrichDetailFails ==
    /\ Cardinality(detailFailed) < MaxDetailFailures
    /\ \E i \in Earliest(DetailWindow), outcome \in {"not_ok", "reject"} :
          DetailSettle(i, outcome)
    /\ UNCHANGED <<catVars, appVars, chartVars, uiVars>>

NextEnrich ==
    \/ EnrichCall
    \/ EnrichPage
    \/ EnrichDetailOk
    \/ EnrichDetailFails

SpecEnrich == InitPager /\ [][NextEnrich]_vars

----------------------------------------------------------------------------
(* fetchUserRepositories *)

\* the k-th repository of the provider's listing (sort=pushed: most recently
\* pushed first); forks stands for the fields the loader does not keep
RawRepo(k) == [id |-> k, forks |-> 0]

\* number of repositories on page p of a listing of n repositories
ListedOnPage(n, p) ==
    IF n <= (p - 1) * PerPage THEN 0 ELSE Min(PerPage, n - (p - 1) * PerPage)

\* the response body of page p
RepoPage(n, p) ==
    [i \in 1..ListedOnPage(n, p) |-> RawRepo((p - 1) * PerPage + i)]

\* repo => ({ id: repo.id, name: repo.name, ... })
RepoOf(repo) == [id |-> repo.id]

\* allRepos.map(...)
ReposOf(repos) == [i \in DOMAIN repos |-> RepoOf(repos[i])]

\* mutant: the loop test written page < ceiling
RepoMorePages_OffByOne(n, p, ceiling) == ~(n = 0 \/ n < PerPage) /\ p + 1 < ceiling

\* the loop goes on to page p + 1: no break (data.length === 0,
\* data.length < perPage) and, after page++, page <= 3
RepoMorePages(n, p, ceiling) == ~(n = 0 \/ n < PerPage) /\ p + 1 <= ceiling

\* fetchUserRepositories up to its first await: page 1 is requested
CallRepos(ceiling) ==
    /\ pc = "idle"
    /\ fn' = "fetchUserRepositories"
    /\ repoCeiling' = ceiling
    /\ allRepos' = <<>>
    /\ page' = 1
    /\ 1 <= ceiling
    /\ repoRequests' = Append(repoRequests, 1)
    /\ pc' = "awaitRepos"
    /\ UNCHANGED <<visible, username, maxPages, currentPage, allItems, prsToEnrich,
                   restPRs, enrichedPRs, pending, result, error, pageRequests,
                   responses, detailRequests, detailFailed, appVars, chartVars, uiVars>>

\* a 2xx response to the request of `page`, and the loop up to the next
\* fetch or the return of the mapped list
RepoPageResponse ==
    /\ pc = "awaitRepos"
    /\ FailureMessage(repoCeiling = RepoMaxPagesV1, 200) = NoError
    /\ LET data == RepoPage(visible, page)
           n    == Len(data)
           acc  == IF n = 0 THEN allRepos ELSE allRepos \o data
       IN  /\ allRepos' = acc
           /\ page' = IF n = 0 \/ n < PerPage THEN page ELSE page + 1
           /\ IF RepoMorePages(n, page, repoCeiling)
              THEN /\ repoRequests' = Append(repoRequests, page + 1)
                   /\ UNCHANGED <<pc, result>>
              ELSE /\ UNCHANGED repoRequests
                   /\ result' = ReposOf(acc)
                   /\ pc' = "returned"
    /\ UNCHANGED <<visible, repoCeiling, fn, username, maxPages, currentPage,
                   allItems, prsToEnrich, restPRs, enrichedPRs, pending, error,
                   pageRequests, responses, detailRequests, detailFailed, appVars, chartVars, uiVars>>

\* the request of `page` fails: handleErrors (or fetch) throws out of
\* fetchUserRepositories
RepoPageFailure(status) ==
    /\ pc = "awaitRepos"
    /\ FailureMessage(repoCeiling = RepoMaxPagesV1, status) # NoError
    /\ pc' = "thrown"
    /\ error' = FailureMessage(repoCeiling = RepoMaxPagesV1, status)
    /\ UNCHANGED <<catVars, fn, username, maxPages, currentPage, allItems,
                   prsToEnrich, restPRs, enrichedPRs, pending, result,
                   pageRequests, responses, detailRequests, detailFailed, appVars, chartVars, uiVars>>

(* SpecCatalog: the loader of either service variant against every listing *)
(* of 0..MaxVisible repositories                                           *)

InitCatalog ==
    /\ SvcInit
    /\ AppInit
    /\ ChartInit
    /\ UiInit
    /\ visible \in 0..MaxVisible
    /\ repoCeiling = 0
    /\ page = 0
    /\ allRepos = <<>>
    /\ repoRequests = <<>>

CatalogCall == \E c \in {RepoMaxPages, RepoMaxPagesV1} : CallRepos(c)

CatalogFailure == \E st \in FailStatuses \cup OkStatuses : RepoPageFailure(st)

NextCatalog ==
    \/ CatalogCall
    \/ RepoPageResponse
    \/ CatalogFailure

SpecCatalog == InitCatalog /\ [][NextCatalog]_vars

----------------------------------------------------------------------------
(* Properties of the Pager and of the Event Fetchers (SpecPager) *)

\* the lengths of the pages received so far
Lens == [k \in DOMAIN responses |-> responses[k].len]

\* the items of pages 1..k as the provider served them, page after page
RECURSIVE ConcatPages(_)
ConcatPages(k) ==
    IF k = 0 THEN <<>>
    ELSE ConcatPages(k - 1) \o PageItems(fn, k, responses[k].len)

\* fetchSearchPages has returned its items to the fetcher
PagingDone == pc \in {"awaitDetails", "returned"} /\ responses # <<>>

\* C1: when fetchSearchPages returns, the pages it read are the full pages
\* before the first page below 100 items, then that page (or maxPages full
\* pages), and its result is their items in request order, each exactly once.
C1_PagerConcatenation ==
    PagingDone =>
        LET read == Len(responses)
        IN  /\ \A k \in 1..(read - 1) : responses[k].len = PerPage
            /\ responses[read].len < PerPage \/ read = maxPages
            /\ pageRequests = [k \in 1..read |-> k]
            /\ allItems = ConcatPages(read)
            /\ fn = "fetchUserCommits" => result = CommitsOf(allItems)

\* C1 witness: a short page after two full ones has been read and returned
C1_Witness ==
    /\ PagingDone
    /\ Lens = <<100, 100, 99>>
    /\ Len(allItems) = 299

\* C2 as stated: once pages of 100, 100, 100 and 40 items have been received
\* the Pager has returned 340 items and no 4th page was requested.
C2_Original ==
    (Len(responses) >= 4 /\ SubSeq(Lens, 1, 4) = <<100, 100, 100, 40>>) =>
        /\ PagingDone
        /\ Len(allItems) = 340
        /\ Len(pageRequests) < 4

\* C2 amended: once pages of 100, 100, 100 and 40 items have been received
\* the Pager has returned 340 items, and the requests ever sent are pages 1
\* to 4: the 40-item page is the 4th request and no 5th follows.
C2_ShortPageStops ==
    (Len(responses) >= 4 /\ SubSeq(Lens, 1, 4) = <<100, 100, 100, 40>>) =>
        /\ PagingDone
        /\ Len(allItems) = 340
        /\ pageRequests = <<1, 2, 3, 4>>

C2_Witness ==
    /\ pc = "returned"
    /\ Lens = <<100, 100, 100, 40>>
    /\ Len(result) = 340

\* C3: once a page request has failed it is the last response, the call has
\* thrown and returned no list, and no page was requested after it or twice.
C3_FailureAborts ==
    \A k \in DOMAIN responses :
        responses[k].status # 200 =>
            /\ k = Len(responses)
            /\ pc = "thrown"
            /\ error = FailureMessage(maxPages = SearchMaxPagesV1, responses[k].status)
            /\ result = <<>>
            /\ pageRequests = [j \in 1..k |-> j]
            /\ detailRequests = <<>>

\* C3 witness: the third page request failed after two full pages were read
C3_Witness ==
    /\ Len(responses) = 3
    /\ responses[3].status = 403
    /\ Len(allItems) = 200
    /\ pc = "thrown"

\* C4: a fetcher called with an empty username has thrown the input error,
\* sent no request and returned no list.
C4_EmptyLoginNoRequest ==
    (fn # "none" /\ username = "") =>
        /\ pc = "thrown"
        /\ error = "Username is required"
        /\ pageRequests = <<>>
        /\ detailRequests = <<>>
        /\ responses = <<>>
        /\ result = <<>>

C4_Witness ==
    /\ fn = "fetchUserPullRequests"
    /\ username = ""
    /\ pc = "thrown"

\* C23: the pages requested are 1, 2, ... in this order; at most one request
\* is unanswered, and only while the call waits for it; page n + 1 was
\* requested only with the response to page n received, served with exactly
\* 100 items, and n below maxPages.  So at most maxPages (at most 10)
\* requests are issued and at most 100 * maxPages items are returned.
C23_OnePageAtATime ==
    LET asked == Len(pageRequests)
        read  == Len(responses)
    IN  /\ pageRequests = [k \in 1..asked |-> k]
        /\ asked = IF pc = "awaitPage" THEN read + 1 ELSE read
        /\ \A n \in 1..(asked - 1) :
              /\ responses[n].status = 200
              /\ responses[n].len = PerPage
              /\ n < maxPages
        /\ asked <= maxPages
        /\ maxPages <= SearchMaxPages
        /\ Len(allItems) <= PerPage * maxPages
        /\ Len(result) <= PerPage * maxPages

\* C23 witness: ten full pages were served; the call made ten requests and
\* returned a thousand items
C23_Witness ==
    /\ pc = "returned"
    /\ pageRequests = <<1, 2, 3, 4, 5, 6, 7, 8, 9, 10>>
    /\ \A n \in 1..10 : responses[n].len = 100
    /\ Len(result) = 1000

\* the status of the response a fetcher threw on
ThrownOn == responses[Len(responses)].status

----------------------------------------------------------------------------
(* Properties of the Repository Catalog Loader (SpecCatalog) *)

\* the first n repositories of the provider's listing, as the loader maps them
Listing(n) == [k \in 1..n |-> RepoOf(RawRepo(k))]

CatalogReturned == fn = "fetchUserRepositories" /\ pc = "returned"

\* C5 as stated, of the current (three-page) loader: it returns every
\* repository the provider lists, in the provider's order, whatever their
\* number.
C5_Original ==
    (CatalogReturned /\ repoCeiling = RepoMaxPages) => result = Listing(visible)

\* C5 amended: the loader returns, in the provider's order, the first
\* min(visible, 100 * ceiling) repositories the provider lists, the ceiling
\* being 3 pages (1 in the earlier variant), having requested pages 1, 2, ...
\* in turn; it returns every repository when the provider lists at most
\* 100 * ceiling of them.
C5_CatalogUpToCeiling ==
    CatalogReturned =>
        /\ result = Listing(Min(visible, PerPage * repoCeiling))
        /\ visible <= PerPage * repoCeiling => result = Listing(visible)
        /\ \A k \in DOMAIN repoRequests : repoRequests[k] = k

\* C5 witness: the three-page loader has returned a listing of 250
C5_Witness ==
    /\ CatalogReturned
    /\ repoCeiling = RepoMaxPages
    /\ visible = 250
    /\ Len(result) = 250

----------------------------------------------------------------------------
(* The Repository Reconciler: handleFetchStats of App.tsx *)

(* Strings the code tests with startsWith are sequences of characters.     *)
HostOrg == <<"h","t","t","p","s",":","/","/","h","o","s","t","/","o","r","g","/">>

\* "https://host/org/repo" and "https://host/org/repo2"
RepoHtmlUrl == HostOrg \o <<"r","e","p","o">>
Repo2HtmlUrl == RepoHtmlUrl \o <<"2">>

CommitPath == <<"/","c","o","m","m","i","t","/","a","b","c">>

\* "https://host/org/repo/commit/abc" and "https://host/org/repo2/commit/abc"
RepoCommitUrl == RepoHtmlUrl \o CommitPath
Repo2CommitUrl == Repo2HtmlUrl \o CommitPath

\* the GitHubRepo values of the two repositories (the fields the filter reads)
Repo ==
    [id |-> 1, url |-> "https://api.host/repos/org/repo", html_url |-> RepoHtmlUrl]
Repo2 ==
    [id |-> 2, url |-> "https://api.host/repos/org/repo2", html_url |-> Repo2HtmlUrl]

\* the catalogs a login can have loaded: the identity sees Repo or both
Catalogs == {<<Repo>>, <<Repo, Repo2>>}

\* sequences over S of length at most n
SeqsUpTo(S, n) == UNION {[1..k -> S] : k \in 0..n}

\* the PR lists fetchUserPullRequests can resolve with: at most MaxPrs PRs of
\* the two repositories, the i-th fetched PR having id i
PrLists ==
    {[i \in DOMAIN urls |-> [id |-> i, repository_url |-> urls[i]]] :
        urls \in SeqsUpTo({Repo.url, Repo2.url}, MaxPrs)}

\* the commit lists fetchUserCommits can resolve with
CommitLists ==
    {[i \in DOMAIN urls |-> [sha |-> i, html_url |-> urls[i]]] :
        urls \in SeqsUpTo({RepoCommitUrl, Repo2CommitUrl}, MaxCommits)}

\* String.prototype.startsWith
startsWith(str, prefix) ==
    Len(prefix) <= Len(str) /\ SubSeq(str, 1, Len(prefix)) = prefix

\* Array.prototype.filter
RECURSIVE Filter(_, _)
Filter(s, keep) ==
    IF s = <<>> THEN <<>>
    ELSE (IF keep[Head(s)] THEN <<Head(s)>> ELSE <<>>) \o Filter(Tail(s), keep)

\* mutant: the selection is not applied to the catalog
selectedRepoUrls_All(repositories, selectedRepoIds) ==
    {repositories[i].url : i \in DOMAIN repositories}

\* new Set(state.repositories.filter(r => state.selectedRepoIds.has(r.id))
\*                           .map(r => r.url))
selectedRepoUrls(repositories, selectedRepoIds) ==
    {repositories[i].url :
        i \in {j \in DOMAIN repositories : repositories[j].id \in selectedRepoIds}}

\* mutant: the first fetched PR is skipped
filteredPrs_SkipFirst(allPrs, repositories, selectedRepoIds) ==
    LET urls == selectedRepoUrls(repositories, selectedRepoIds)
        rest == IF allPrs = <<>> THEN <<>> ELSE Tail(allPrs)
    IN  Filter(rest, [pr \in {rest[i] : i \in DOMAIN rest} |-> pr.repository_url \in urls])

\* allPrs.filter(pr => selectedRepoUrls.has(pr.repository_url))
filteredPrs(allPrs, repositories, selectedRepoIds) ==
    LET urls == selectedRepoUrls(repositories, selectedRepoIds)
    IN  Filter(allPrs,
               [pr \in {allPrs[i] : i \in DOMAIN allPrs} |-> pr.repository_url \in urls])

\* mutant: the commit's URL is compared for equality with the repository's
commitMatches_Equal(c, r) == c.html_url = r.html_url

\* c.html_url.startsWith(r.html_url)
commitMatches(c, r) == startsWith(c.html_url, r.html_url)

\* allCommits.filter(c => state.repositories.some(r =>
\*     state.selectedRepoIds.has(r.id) && c.html_url.startsWith(r.html_url)))
filteredCommits(allCommits, repositories, selectedRepoIds) ==
    Filter(allCommits,
           [c \in {allCommits[i] : i \in DOMAIN allCommits} |->
               \E i \in DOMAIN repositories :
                   /\ repositories[i].id \in selectedRepoIds
                   /\ commitMatches(c, repositories[i])])

\* toggleRepo(id), offered by the repository selector for the catalog's ids
toggleRepo(id) ==
    /\ state.step = "repo_selection"
    /\ \E i \in DOMAIN state.repositories : state.repositories[i].id = id
    /\ state' = [state EXCEPT !.selectedRepoIds =
                    IF id \in @ THEN @ \ {id} ELSE @ \cup {id}]
    /\ UNCHANGED <<cycles, last>>

\* "Edit Repos" and the "Repositories" breadcrumb of the dashboard
EditRepos ==
    /\ state.step = "dashboard"
    /\ state' = [state EXCEPT !.step = "repo_selection"]
    /\ UNCHANGED <<cycles, last>>

\* the control that calls handleFetchStats is enabled: "Analyze" of the
\* repository selector, or the refresh button of the dashboard
FetchStatsEnabled ==
    \/ /\ state.step = "repo_selection"
       /\ state.selectedRepoIds # {}
       /\ state.status # "loading"
    \/ /\ state.step = "dashboard"
       /\ state.status # "loading"

\* what handleFetchStats reads, once its await is over, of the state its
\* callback closed over: the catalog and the selection (the login, the token
\* and the date range are read before, as the arguments of the two fetches)
Closure(s) ==
    [repositories |-> s.repositories, selectedRepoIds |-> s.selectedRepoIds]

\* handleFetchStats up to its await: both fetchers are called with the state
\* the callback closed over
handleFetchStats ==
    /\ FetchStatsEnabled
    /\ ~state.user.isNull
    /\ state' = [state EXCEPT !.status = "loading", !.error = Null,
                              !.step = "dashboard"]
    /\ cycles' = Append(cycles, [closure |-> Closure(state), prs |-> FALSE,
                                 commits |-> FALSE])
    /\ UNCHANGED last

\* cycles without its k-th element
Without(k) == SubSeq(cycles, 1, k - 1) \o SubSeq(cycles, k + 1, Len(cycles))

\* mutant: the list of the fetch that resolves first is written on arrival
FetchStatsFirst_WritesEarly(k, which) ==
    /\ k \in DOMAIN cycles
    /\ ~cycles[k].prs /\ ~cycles[k].commits
    /\ cycles' = [cycles EXCEPT ![k][which] = TRUE]
    /\ IF which = "prs"
       THEN \E allPrs \in PrLists :
               state' = [state EXCEPT !.prs =
                   filteredPrs(allPrs, cycles[k].closure.repositories,
                               cycles[k].closure.selectedRepoIds)]
       ELSE \E allCommits \in CommitLists :
               state' = [state EXCEPT !.commits =
                   filteredCommits(allCommits, cycles[k].closure.repositories,
                                   cycles[k].closure.selectedRepoIds)]
    /\ UNCHANGED last

(* The first of the two fetches of cycle k resolves (which is "prs" or     *)
(* "commits"): Promise.all stays pending, handleFetchStats stays at its    *)
(* await.  Nothing reads the list before Promise.all resolves, where the   *)
(* model draws it.                                                         *)
FetchStatsFirst(k, which) ==
    /\ k \in DOMAIN cycles
    /\ ~cycles[k].prs /\ ~cycles[k].commits
    /\ cycles' = [cycles EXCEPT ![k][which] = TRUE]
    /\ UNCHANGED <<state, last>>

(* The second of the two fetches of cycle k resolves, and with it the      *)
(* Promise.all, with allPrs and allCommits: the lists are filtered against *)
(* the closure's catalog and selection and written to the state in one     *)
(* setState.                                                               *)
FetchStatsResolve(k, allPrs, allCommits) ==
    /\ k \in DOMAIN cycles
    /\ cycles[k].prs \/ cycles[k].commits
    /\ LET closure == cycles[k].closure
           prs     == filteredPrs(allPrs, closure.repositories,
                                  closure.selectedRepoIds)
           commits == filteredCommits(allCommits, closure.repositories,
                                      closure.selectedRepoIds)
       IN  /\ state' = [state EXCEPT !.status = "complete", !.prs = prs,
                                     !.commits = commits, !.error = Null]
           /\ last' = [done |-> TRUE, allPrs |-> allPrs, allCommits |-> allCommits,
                       repositories |-> closure.repositories,
                       selectedRepoIds |-> closure.selectedRepoIds]
    /\ cycles' = Without(k)

(* A fetch of cycle k that has not resolved throws, with the error of a    *)
(* request answered with status: Promise.all rejects at once and the catch *)
(* records the error.  Whatever the other fetch of the cycle does          *)
(* afterwards has no effect: the cycle is over.                            *)
FetchStatsReject(k, status) ==
    /\ k \in DOMAIN cycles
    /\ FailureMessage(FALSE, status) # NoError
    /\ state' = [state EXCEPT !.status = "error",
                              !.error = FailureMessage(FALSE, status)]
    /\ cycles' = Without(k)
    /\ UNCHANGED last

(* SpecReconcile: from the state a successful login leaves (a catalog      *)
(* loaded, nothing selected), every selection and every pair of fetched    *)
(* lists, cycle after cycle.  The user edits the selection between cycles: *)
(* the filter reads only what the cycle's closure captured, so an edit     *)
(* made while a cycle is in flight gives the filter no further input.      *)

InitReconcile ==
    /\ SvcInit
    /\ CatInit
    /\ ChartInit
    /\ UiInit
    /\ \E catalog \in Catalogs :
        state = [step |-> "repo_selection",
                 user |-> [isNull |-> FALSE, login |-> "octocat"],
                 githubToken |-> "token", repositories |-> catalog,
                 selectedRepoIds |-> {}, status |-> "idle", error |-> Null,
                 prs |-> <<>>, commits |-> <<>>, generatedReport |-> Null]
    /\ cycles = <<>>
    /\ last = NoCycle

ReconcileToggle ==
    /\ \E id \in {Repo.id, Repo2.id} : toggleRepo(id)
    /\ UNCHANGED <<svcVars, catVars, chartVars, uiVars>>

ReconcileEdit ==
    /\ cycles = <<>>
    /\ EditRepos
    /\ UNCHANGED <<svcVars, catVars, chartVars, uiVars>>

ReconcileStart == handleFetchStats /\ UNCHANGED <<svcVars, catVars, chartVars, uiVars>>

ReconcileFirst ==
    /\ \E k \in DOMAIN cycles, which \in {"prs", "commits"} : FetchStatsFirst(k, which)
    /\ UNCHANGED <<svcVars, catVars, chartVars, uiVars>>

ReconcileResolve ==
    /\ \E k \in DOMAIN cycles, allPrs \in PrLists, allCommits \in CommitLists :
          FetchStatsResolve(k, allPrs, allCommits)
    /\ UNCHANGED <<svcVars, catVars, chartVars, uiVars>>

ReconcileReject ==
    /\ \E k \in DOMAIN cycles, st \in {401, 403} : FetchStatsReject(k, st)
    /\ UNCHANGED <<svcVars, catVars, chartVars, uiVars>>

NextReconcile ==
    \/ ReconcileToggle
    \/ ReconcileEdit
    \/ ReconcileStart
    \/ ReconcileFirst
    \/ ReconcileResolve
    \/ ReconcileReject

SpecReconcile == InitReconcile /\ [][NextReconcile]_vars

----------------------------------------------------------------------------
(* Properties of the Repository Reconciler (SpecReconcile) *)

\* the elements of a sequence
Range(s) == {s[i] : i \in DOMAIN s}

\* the repositories of the catalog the cycle captured whose id it had selected
SelectedRepos ==
    {r \in Range(last.repositories) : r.id \in last.selectedRepoIds}

\* p is a prefix of the character sequence str
IsPrefix(p, str) ==
    /\ Len(p) <= Len(str)
    /\ \A i \in 1..Len(p) : str[i] = p[i]

\* out holds elements of inp only, in the order they have in inp (the ids
\* of the fetched lists are their positions)
KeepsOrder(out, key(_)) ==
    \A i, j \in DOMAIN out : i < j => key(out[i]) < key(out[j])

PrId(pr) == pr.id

CommitSha(c) == c.sha

\* C6: of the PRs a cycle fetched, state.prs holds exactly those whose
\* repository_url is the url of a catalog repository with a selected id, in
\* fetched order.
C6_PrRetainedIffSelectedUrl ==
    last.done =>
        /\ Range(state.prs) \subseteq Range(last.allPrs)
        /\ \A pr \in Range(last.allPrs) :
              pr \in Range(state.prs)
                  <=> \E r \in SelectedRepos : r.url = pr.repository_url
        /\ KeepsOrder(state.prs, PrId)

\* C6 witness: with both repositories in the catalog and Repo selected, a PR
\* of Repo was kept and a PR of Repo2 dropped
C6_Witness ==
    /\ last.done
    /\ last.repositories = <<Repo, Repo2>>
    /\ last.selectedRepoIds = {Repo.id}
    /\ last.allPrs = <<[id |-> 1, repository_url |-> Repo2.url],
                       [id |-> 2, repository_url |-> Repo.url]>>
    /\ state.prs = <<[id |-> 2, repository_url |-> Repo.url]>>

\* C7: of the commits a cycle fetched, state.commits holds exactly those
\* whose html_url has the html_url of some selected catalog repository as a
\* prefix, in fetched order.
C7_CommitRetainedIffPrefix ==
    last.done =>
        /\ Range(state.commits) \subseteq Range(last.allCommits)
        /\ \A c \in Range(last.allCommits) :
              c \in Range(state.commits)
                  <=> \E r \in SelectedRepos : IsPrefix(r.html_url, c.html_url)
        /\ KeepsOrder(state.commits, CommitSha)

\* C7 witness: with only Repo2 selected, a commit of Repo2 was kept and a
\* commit of Repo dropped
C7_Witness ==
    /\ last.done
    /\ last.selectedRepoIds = {Repo2.id}
    /\ last.allCommits = <<[sha |-> 1, html_url |-> RepoCommitUrl],
                           [sha |-> 2, html_url |-> Repo2CommitUrl]>>
    /\ state.commits = <<[sha |-> 2, html_url |-> Repo2CommitUrl]>>

\* C8: when the only selected repository is https://host/org/repo, no commit
\* under https://host/org/repo2 is retained.
C8_Repo2CommitNotRetained ==
    (last.done /\ {r.html_url : r \in SelectedRepos} = {RepoHtmlUrl}) =>
        \A c \in Range(state.commits) : ~IsPrefix(Repo2HtmlUrl, c.html_url)

\* C9: filtering the lists a cycle wrote to the state again, against the
\* catalog and the selection of that cycle, returns the same lists.
C9_ReconcileIdempotent ==
    last.done =>
        /\ filteredPrs(state.prs, last.repositories, last.selectedRepoIds)
               = state.prs
        /\ filteredCommits(state.commits, last.repositories, last.selectedRepoIds)
               = state.commits

\* C9 witness: a cycle dropped a PR and a commit and kept a PR and a commit
C9_Witness ==
    /\ last.done
    /\ Len(last.allPrs) = 2 /\ Len(state.prs) = 1
    /\ Len(last.allCommits) = 2 /\ Len(state.commits) = 1

\* C19: state.prs or state.commits change only in the step in which the
\* second of the two fetches of a cycle resolves, the other having resolved
\* before: both are then written in the same update, as the filtered lists
\* of that cycle, with status 'complete'.  A step that ends a cycle either
\* is that one or sets status 'error' with the message of the failure and
\* leaves state.prs and state.commits as they were.
C19_CycleAtomic ==
    [][/\ (state'.prs # state.prs \/ state'.commits # state.commits) =>
             \E k \in DOMAIN cycles :
                 /\ cycles' = Without(k)
                 /\ cycles[k].prs \/ cycles[k].commits
                 /\ last'.done
                 /\ state'.status = "complete"
                 /\ state'.prs = filteredPrs(last'.allPrs,
                                             cycles[k].closure.repositories,
                                             cycles[k].closure.selectedRepoIds)
                 /\ state'.commits = filteredCommits(last'.allCommits,
                                                     cycles[k].closure.repositories,
                                                     cycles[k].closure.selectedRepoIds)
       /\ Len(cycles') < Len(cycles) =>
             \/ state'.status = "complete" /\ state'.error = Null
             \/ /\ state'.status = "error"
                /\ state'.error \in {"Invalid GitHub Token.",
                      "GitHub API rate limit exceeded. Please try again later."}
                /\ state'.prs = state.prs
                /\ state'.commits = state.commits
      ]_vars

\* C19 witness: a cycle failed after an earlier one had written its lists,
\* which are still in the state
C19_Witness ==
    /\ state.status = "error"
    /\ state.error = "GitHub API rate limit exceeded. Please try again later."
    /\ last.done
    /\ state.prs # <<>>
    /\ state.commits # <<>>
    /\ cycles = <<>>

\* C20: after a fetch cycle failed with HTTP 401 the app is not on the
\* repository-selection or dashboard step with the rejected identity and
\* credential still in the state.
C20_AuthErrorForcesLogin ==
    (state.status = "error" /\ state.error = "Invalid GitHub Token.") =>
        ~(/\ state.step \in {"repo_selection", "dashboard"}
          /\ ~state.user.isNull
          /\ state.githubToken # "")

----------------------------------------------------------------------------
(* Properties of the Detail Enricher (SpecEnrich) *)

\* the PR sequence the Detail Enricher was given: the mapped search items
Fetched == BasicPRs(allItems)

\* fetchUserPullRequests has left the Pager and issued its detail fetches
EnricherStarted ==
    /\ fn = "fetchUserPullRequests"
    /\ pc \in {"awaitDetails", "returned"}

\* C10: the detail requests issued are those of positions 0..19 of the
\* fetched sequence, one each (min(20, n) requests for n PRs); in the
\* returned list every PR from position 20 on is the fetched PR unchanged,
\* with no additions/deletions, and every PR below position 20 whose detail
\* fetch succeeded carries the additions/deletions of its detail response.
C10_EnrichOnlyFirstTwenty ==
    EnricherStarted =>
        LET n == Len(Fetched)
        IN  /\ Len(detailRequests) = Min(20, n)
            /\ \A i \in DOMAIN detailRequests : detailRequests[i] = Fetched[i].api_url
            /\ pc = "returned" =>
                  /\ Len(result) = n
                  /\ \A i \in 1..n :
                        /\ i > 20 => result[i] = Fetched[i] /\ ~IsEnriched(result[i])
                        /\ (i <= 20 /\ i \notin detailFailed) =>
                              /\ IsEnriched(result[i])
                              /\ result[i].id = Fetched[i].id
                              /\ result[i].additions = DetailOf(Fetched[i].api_url).additions
                              /\ result[i].deletions = DetailOf(Fetched[i].api_url).deletions

\* C10 witness: of 25 PRs, positions 0-19 were enriched and 20-24 returned
\* as fetched
C10_Witness ==
    /\ EnricherStarted
    /\ pc = "returned"
    /\ Len(result) = 25
    /\ Len(detailRequests) = 20
    /\ \A i \in 1..20 : IsEnriched(result[i])
    /\ \A i \in 21..25 : ~IsEnriched(result[i])

\* the positions of the prefix: those a detail fetch was issued for
Prefix == 1..Min(EnrichLimit, Len(Fetched))

\* C11: a failed detail fetch (non-2xx status or rejection) never makes
\* fetchUserPullRequests throw; the call returns exactly when every detail
\* fetch of the prefix has settled; in the returned list an item whose detail
\* fetch failed is the fetched PR unchanged, and every other item of the
\* prefix carries the additions/deletions of its own detail response.
C11_DetailFailureAbsorbed ==
    fn = "fetchUserPullRequests" =>
        /\ pc # "thrown" /\ error = ""
        /\ EnricherStarted =>
              /\ pc = "returned" <=> pending = {}
              /\ detailFailed \subseteq Prefix \ pending
              /\ pc = "returned" =>
                    \A i \in Prefix :
                        IF i \in detailFailed
                        THEN result[i] = Fetched[i] /\ ~IsEnriched(result[i])
                        ELSE result[i] = Enriched(Fetched[i], DetailOf(Fetched[i].api_url))

\* C11 witness: of 25 PRs the detail fetch of item 5 failed; items 0-4 and
\* 6-19 are enriched and item 5 is returned as fetched
C11_Witness ==
    /\ pc = "returned"
    /\ Len(result) = 25
    /\ detailFailed = {6}
    /\ result[6] = Fetched[6]
    /\ \A i \in (1..20) \ {6} : IsEnriched(result[i])

\* C12: while the detail fetches settle, in any order and with any of them
\* failing, position i of the enriched prefix holds the PR fetched at
\* position i; the returned list has the length of the fetched sequence and
\* the PR at its position i has the id of the PR fetched at position i.
C12_OrderPreserved ==
    EnricherStarted =>
        /\ Len(enrichedPRs) = Len(prsToEnrich)
        /\ \A i \in DOMAIN enrichedPRs : enrichedPRs[i].id = Fetched[i].id
        /\ pc = "returned" =>
              /\ Len(result) = Len(Fetched)
              /\ \A i \in DOMAIN result : result[i].id = Fetched[i].id

\* C12 witness: the detail response of position 1 arrived, and that of
\* position 2 failed, while the detail fetch of position 0 was outstanding
C12_Witness ==
    /\ pc = "awaitDetails"
    /\ Len(Fetched) = 25
    /\ 1 \in pending
    /\ 2 \notin pending /\ IsEnriched(enrichedPRs[2])
    /\ detailFailed = {3}

----------------------------------------------------------------------------
(* The Timeline Aggregator: the chartData callback of ActivityChart.       *)
(* A Date is its time value, here in hours since 1970-01-01T00:00Z (the    *)
(* strings the model serves fall on whole hours); NaN is the time value of *)
(* an Invalid Date.  A date string "YYYY-MM-DD" is <<y, m, d>>, a          *)
(* timestamp "YYYY-MM-DDTHH:00:00Z" is <<y, m, d, h>>, and the empty       *)
(* string of a cleared date input is <<>>.  The display label of a bucket  *)
(* is not modelled.                                                        *)

\* the time value of an Invalid Date
NaN == -1

\* 1000 * 60 * 60 * 24 milliseconds, in hours
HoursPerDay == 24

\* isMonthly = diffDays > 60
SpanLimit == 60

\* if (loops++ > 1000) break
LoopCap == 1000

\* days from 1970-01-01 to the day d of month m (1..12) of year y
DaysFromCivil(y, m, d) ==
    LET yy  == IF m <= 2 THEN y - 1 ELSE y
        era == yy \div 400
        yoe == yy - era * 400
        mp  == IF m > 2 THEN m - 3 ELSE m + 9
        doy == (153 * mp + 2) \div 5 + d - 1
        doe == yoe * 365 + yoe \div 4 - yoe \div 100 + doy
    IN  era * 146097 + doe - 719468

\* the calendar date of the day z days after 1970-01-01
CivilFromDays(z) ==
    LET zz  == z + 719468
        era == zz \div 146097
        doe == zz - era * 146097
        yoe == (doe - doe \div 1460 + doe \div 36524 - doe \div 146096) \div 365
        doy == doe - (365 * yoe + yoe \div 4 - yoe \div 100)
        mp  == (5 * doy + 2) \div 153
        m   == IF mp < 10 THEN mp + 3 ELSE mp - 9
    IN  [y |-> yoe + era * 400 + (IF m <= 2 THEN 1 ELSE 0),
         m |-> m,
         d |-> doy - (153 * mp + 2) \div 5 + 1]

\* new Date(str).getTime(): a date-only string is UTC midnight of that day
ParseDate(str) ==
    IF str = <<>> THEN NaN
    ELSE HoursPerDay * DaysFromCivil(str[1], str[2], str[3])
             + (IF Len(str) = 4 THEN str[4] ELSE 0)

\* the local calendar fields of a time value
LocalFields(t) ==
    LET c == CivilFromDays((t + tz) \div HoursPerDay)
    IN  [y |-> c.y, m |-> c.m, d |-> c.d, h |-> (t + tz) % HoursPerDay]

\* the time value of local hour h of the day `day` days after the last day
\* of the month before month m0 (0-based, any integer >= 0) of year y
MakeLocal(y, m0, day, h) ==
    HoursPerDay * (DaysFromCivil(y + m0 \div 12, (m0 % 12) + 1, 1) + day - 1) + h - tz

\* Date.prototype.getFullYear, getMonth (0-based), getDate: local time
getFullYear(t) == LocalFields(t).y

getMonth(t) == LocalFields(t).m - 1

getDate(t) == LocalFields(t).d

\* Date.prototype.setDate(day): the local day of the month is replaced
setDate(t, day) ==
    LET f == LocalFields(t) IN MakeLocal(f.y, f.m - 1, day, f.h)

\* Date.prototype.setMonth(m0): the local month is replaced
setMonth(t, m0) ==
    LET f == LocalFields(t) IN MakeLocal(f.y, m0, f.d, f.h)

\* date.toISOString().split('T')[0]: the UTC calendar date
toISODate(t) ==
    LET c == CivilFromDays(t \div HoursPerDay) IN <<c.y, c.m, c.d>>

\* `${date.getFullYear()}-${String(date.getMonth() + 1).padStart(2, '0')}`
MonthKey(t) == <<getFullYear(t), getMonth(t) + 1>>

\* the key of the bucket of a time value, in the mode of this evaluation
KeyOf(t) == IF isMonthly THEN MonthKey(t) ELSE toISODate(t)

\* Math.ceil(Math.abs(end.getTime() - start.getTime()) / (1000*60*60*24))
DiffDays(start, end) ==
    IF start = NaN \/ end = NaN THEN NaN
    ELSE LET diffTime == IF end >= start THEN end - start ELSE start - end
         IN  (diffTime + HoursPerDay - 1) \div HoursPerDay

\* mutant: the boundary span is taken as monthly
Monthly_FromSixty(diffDays) == diffDays # NaN /\ diffDays >= SpanLimit

\* const isMonthly = diffDays > 60 (false when diffDays is NaN)
Monthly(diffDays) == diffDays # NaN /\ diffDays > SpanLimit

\* mutant: the walk goes on until current meets endTarget
InLoop_UntilEqual(cur, endT, monthly) == cur # NaN /\ endT # NaN /\ cur # endT

\* the test of the while loop: current <= endTarget || (isMonthly &&
\* current.getMonth() === endTarget.getMonth() &&
\* current.getFullYear() === endTarget.getFullYear())
InLoop(cur, endT, monthly) ==
    \/ cur # NaN /\ endT # NaN /\ cur <= endT
    \/ /\ monthly
       /\ getMonth(cur) = getMonth(endT)
       /\ getFullYear(cur) = getFullYear(endT)

\* Map.prototype.set: the value of an existing key is replaced where it
\* stands, a new key is added last
MapSet(map, bucket) ==
    IF \E i \in DOMAIN map : map[i].key = bucket.key
    THEN [i \in DOMAIN map |-> IF map[i].key = bucket.key THEN bucket ELSE map[i]]
    ELSE Append(map, bucket)

\* mutant: every item is counted as a PR
Bumped_AsPR(bucket, type) == [bucket EXCEPT !.PRs = @ + 1]

\* bucket[type] += 1
Bumped(bucket, type) ==
    IF type = "PRs" THEN [bucket EXCEPT !.PRs = @ + 1]
    ELSE [bucket EXCEPT !.Commits = @ + 1]

\* processItem(dateStr, type): the map after it
processItem(map, dateStr, type) ==
    LET date == ParseDate(dateStr)
        key  == KeyOf(date)
    IN  IF date = NaN THEN map
        ELSE [i \in DOMAIN map |->
                 IF map[i].key = key THEN Bumped(map[i], type) ELSE map[i]]

\* items.forEach(item => processItem(item's date, type))
RECURSIVE forEach(_, _, _)
forEach(map, items, type) ==
    IF items = <<>> THEN map
    ELSE forEach(processItem(map, Head(items), type), Tail(items), type)

\* mutant: the comparator reversed
Before_Descending(a, b) == a.timestamp > b.timestamp

\* (a, b) => a.timestamp - b.timestamp is negative: a sorts before b
Before(a, b) == a.timestamp < b.timestamp

\* Array.prototype.sort with that comparator (the sort is stable): the
\* element at position j goes to position rank[j]; a sequence in which no
\* element sorts before its predecessor is its own sort
sort(s) ==
    LET n    == Len(s)
        rank == [j \in 1..n |->
                    1 + Cardinality({k \in 1..n :
                            \/ Before(s[k], s[j])
                            \/ ~Before(s[j], s[k]) /\ k < j})]
    IN  IF \A i \in 1..(n - 1) : ~Before(s[i + 1], s[i]) THEN s
        ELSE [i \in 1..n |-> s[CHOOSE j \in 1..n : rank[j] = i]]

(* The callback up to the while loop: lines 22-48, and the first test.     *)
ChartStart ==
    /\ chartPc = "props"
    /\ LET start   == ParseDate(startDate)
           end     == ParseDate(endDate)
           monthly == Monthly(DiffDays(start, end))
           cur     == IF monthly THEN setDate(start, 1) ELSE start
           endT    == IF monthly THEN setDate(end, 1) ELSE end
       IN  /\ isMonthly' = monthly
           /\ current' = cur
           /\ endTarget' = endT
           /\ chartPc' = IF InLoop(cur, endT, monthly) THEN "walk" ELSE "fill"
    /\ loops' = 0
    /\ dataMap' = <<>>
    /\ grid' = <<>>
    /\ UNCHANGED <<tz, startDate, endDate, chartPrs, chartCommits, chartData>>

(* One iteration of the while loop and the test that follows it.           *)
(* toISOString throws a RangeError on an Invalid Date.                     *)
ChartWalk ==
    /\ chartPc = "walk"
    /\ loops' = loops + 1
    /\ IF loops > LoopCap
       THEN \* if (loops++ > 1000) break
            /\ chartPc' = "fill"
            /\ grid' = dataMap
            /\ UNCHANGED <<current, dataMap>>
       ELSE IF ~isMonthly /\ current = NaN
       THEN /\ chartPc' = "thrown"
            /\ UNCHANGED <<current, dataMap, grid>>
       ELSE LET map  == MapSet(dataMap, [key |-> KeyOf(current), PRs |-> 0,
                                         Commits |-> 0, timestamp |-> current])
                next == IF isMonthly THEN setMonth(current, getMonth(current) + 1)
                        ELSE setDate(current, getDate(current) + 1)
            IN  /\ dataMap' = map
                /\ current' = next
                /\ IF InLoop(next, endTarget, isMonthly)
                   THEN chartPc' = "walk" /\ UNCHANGED grid
                   ELSE chartPc' = "fill" /\ grid' = map
    /\ UNCHANGED <<tz, startDate, endDate, chartPrs, chartCommits, isMonthly,
                   endTarget, chartData>>

(* The rest of the callback: both forEach over the props and the sorted    *)
(* values of the map, returned.                                            *)
ChartFill(prs, commits) ==
    /\ chartPc = "fill"
    /\ chartPrs' = prs
    /\ chartCommits' = commits
    /\ LET filled == forEach(forEach(dataMap, prs, "PRs"), commits, "Commits")
       IN  /\ dataMap' = filled
           /\ chartData' = sort(filled)
    /\ chartPc' = "done"
    /\ UNCHANGED <<tz, startDate, endDate, isMonthly, current, endTarget, loops, grid>>

(* SpecTimeline: one evaluation of the callback for every range of Ranges, *)
(* in every time zone of TimeZones (zones without daylight saving), on     *)
(* every pair of lists of at most MaxChartItems events of EventTimes.      *)

\* the hosts' offsets from UTC, in hours: Bogota, UTC, Tokyo
TimeZones == {-5, 0, 9}

\* <<startDate, endDate>>: one day; two weeks; 60 days; 61 days; four
\* months from the first of a month; two inverted ranges, of 14 and of 181
\* days; 90 years; a cleared start; a cleared end
Ranges ==
    {<<<<2024, 1, 1>>, <<2024, 1, 1>>>>,  <<<<2024, 1, 1>>, <<2024, 1, 15>>>>,
     <<<<2024, 1, 1>>, <<2024, 3, 1>>>>,  <<<<2024, 1, 1>>, <<2024, 3, 2>>>>,
     <<<<2024, 3, 1>>, <<2024, 6, 30>>>>, <<<<2024, 1, 15>>, <<2024, 1, 1>>>>,
     <<<<2024, 6, 30>>, <<2024, 1, 1>>>>, <<<<1970, 1, 15>>, <<2060, 1, 15>>>>,
     <<<<>>, <<2024, 1, 1>>>>,            <<<<2024, 1, 1>>, <<>>>>}

\* created_at / date of the events: unparseable; the first hours of March
\* 1st (February in a zone west of UTC); mid January, late in the day; a year
\* after every range but the longest
EventTimes == {<<>>, <<2024, 3, 1, 2>>, <<2024, 1, 10, 23>>, <<2025, 1, 1, 12>>}

EventLists == SeqsUpTo(EventTimes, MaxChartItems)

InitTimeline ==
    /\ SvcInit
    /\ CatInit
    /\ AppInit
    /\ UiInit
    /\ tz \in TimeZones
    /\ \E range \in Ranges : startDate = range[1] /\ endDate = range[2]
    /\ chartPrs = <<>>
    /\ chartCommits = <<>>
    /\ chartPc = "props"
    /\ isMonthly = FALSE
    /\ current = 0
    /\ endTarget = 0
    /\ loops = 0
    /\ dataMap = <<>>
    /\ grid = <<>>
    /\ chartData = <<>>

TimelineStart == ChartStart /\ UNCHANGED <<svcVars, catVars, appVars, uiVars>>

TimelineWalk == ChartWalk /\ UNCHANGED <<svcVars, catVars, appVars, uiVars>>

TimelineFill ==
    /\ \E prs \in EventLists, commits \in EventLists : ChartFill(prs, commits)
    /\ UNCHANGED <<svcVars, catVars, appVars, uiVars>>

NextTimeline ==
    \/ TimelineStart
    \/ TimelineWalk
    \/ TimelineFill

SpecTimeline == InitTimeline /\ [][NextTimeline]_vars

----------------------------------------------------------------------------
(* Properties of the Timeline Aggregator (SpecTimeline) *)

\* both props are dates
ValidRange == startDate # <<>> /\ endDate # <<>>

\* the calendar day number of a date string
DayNumber(str) == DaysFromCivil(str[1], str[2], str[3])

\* the calendar days between the two dates of the range
DaySpan ==
    IF DayNumber(endDate) >= DayNumber(startDate)
    THEN DayNumber(endDate) - DayNumber(startDate)
    ELSE DayNumber(startDate) - DayNumber(endDate)

\* the calendar months from the month of startDate to that of endDate, inclusive
MonthsInclusive ==
    (endDate[1] * 12 + endDate[2]) - (startDate[1] * 12 + startDate[2]) + 1

Inverted == ValidRange /\ DayNumber(startDate) > DayNumber(endDate)

\* C13: for a range with start <= end the callback returns one bucket per
\* calendar day of the range in daily mode and one per calendar month from
\* the start month to the end month in monthly mode, at most 1000.
C13_BucketCount ==
    (chartPc = "done" /\ ValidRange /\ ~Inverted) =>
        Len(chartData) =
            Min(IF isMonthly THEN MonthsInclusive ELSE DaySpan + 1, LoopCap)

\* C14: the mode is monthly exactly when the calendar days between the two
\* dates exceed 60, and the keys of the buckets are month keys exactly then.
C14_GranularityBoundary ==
    (chartPc # "props" /\ ValidRange) =>
        LET fields == IF DaySpan > 60 THEN 2 ELSE 3
        IN  /\ isMonthly <=> DaySpan > 60
            /\ \A i \in DOMAIN dataMap : Len(dataMap[i].key) = fields

\* C14 witness: a range of exactly 60 days has been walked day by day
C14_Witness ==
    /\ chartPc = "done"
    /\ ValidRange
    /\ DaySpan = 60
    /\ ~isMonthly
    /\ Len(chartData) = 61
    /\ chartData[61].key = <<2024, 3, 1>>

\* C15: the returned buckets are in ascending order of timestamp.
C15_SortedByTimestamp ==
    chartPc = "done" =>
        /\ \A i \in 1..(Len(chartData) - 1) :
              chartData[i].timestamp <= chartData[i + 1].timestamp
        /\ Len(chartData) = Len(dataMap)
        /\ Range(chartData) = Range(dataMap)

\* C15 witness: a timeline of several buckets holding events was returned
C15_Witness ==
    /\ chartPc = "done"
    /\ Len(chartData) >= 4
    /\ chartData[1].timestamp < chartData[4].timestamp
    /\ \E i \in DOMAIN chartData : chartData[i].PRs > 0

\* C16: for an inverted range no bucket is ever created, the callback
\* returns the empty sequence and throws nothing.
C16_InvertedRangeEmpty ==
    Inverted =>
        /\ dataMap = <<>>
        /\ chartData = <<>>
        /\ chartPc # "thrown"
        /\ chartPc \in {"fill", "done"} => loops = 0

\* C16 witness: the callback has returned for an inverted range of more
\* than 60 days, given events
C16_Witness ==
    /\ chartPc = "done"
    /\ Inverted
    /\ DaySpan > 60
    /\ chartPrs # <<>>
    /\ chartData = <<>>

\* the keys the dates of a list of events reduce to; an unparseable date
\* reduces to no key
Reduced(items) ==
    [i \in DOMAIN items |->
        IF items[i] = <<>> THEN <<>> ELSE KeyOf(ParseDate(items[i]))]

\* how many elements of a sequence of keys are a given key
Count(keys, key) == Cardinality({i \in DOMAIN keys : keys[i] = key})

\* a bucket with its counts reset
Zeroed(bucket) == [bucket EXCEPT !.PRs = 0, !.Commits = 0]

C24_AtMostThousandBuckets ==
    /\ Len(dataMap) <= LoopCap
    /\ chartPc \in {"fill", "done"} => Len(grid) <= LoopCap

----------------------------------------------------------------------------
(* App: login, report generation and logout, beside the fetch cycle        *)

\* s without its k-th element
Remove(s, k) == SubSeq(s, 1, k - 1) \o SubSeq(s, k + 1, Len(s))

\* the values typed into the token input: cleared, or a token
Tokens == {"", "token"}

\* onChange of the token input of the login screen
setToken(v) ==
    /\ state.step = "login"
    /\ v # state.githubToken
    /\ state' = [state EXCEPT !.githubToken = v]
    /\ UNCHANGED <<cycles, last, logins, reports>>

\* the submit button of the login form is enabled
LoginEnabled == state.status # "loading" /\ state.githubToken # ""

\* handleLogin up to its first await: fetchAuthenticatedUser is called with
\* the token of the state the handler closed over
handleLogin ==
    /\ state.step = "login"
    /\ LoginEnabled
    /\ state' = [state EXCEPT !.status = "loading", !.error = Null]
    /\ logins' = Append(logins, [token |-> state.githubToken, await |-> "user",
                                  user |-> NoUser])
    /\ UNCHANGED <<cycles, last, reports>>

\* fetchAuthenticatedUser resolves: handleLogin goes on to its second await,
\* fetchUserRepositories
LoginUser(k) ==
    /\ k \in DOMAIN logins
    /\ logins[k].await = "user"
    /\ logins' = [logins EXCEPT ![k].await = "repos",
                                ![k].user = [isNull |-> FALSE, login |-> "octocat"]]
    /\ UNCHANGED <<state, cycles, last, reports>>

\* fetchUserRepositories resolves with repos: the identity and the catalog are
\* written and the app moves to the repository selection
LoginResolve(k, repos) ==
    /\ k \in DOMAIN logins
    /\ logins[k].await = "repos"
    /\ state' = [state EXCEPT !.user = logins[k].user, !.repositories = repos,
                              !.status = "idle", !.step = "repo_selection"]
    /\ logins' = Remove(logins, k)
    /\ UNCHANGED <<cycles, last, reports>>

\* the request handleLogin awaits is answered with status: the catch records
\* the error
LoginReject(k, status) ==
    /\ k \in DOMAIN logins
    /\ FailureMessage(FALSE, status) # NoError
    /\ state' = [state EXCEPT !.status = "error",
                              !.error = FailureMessage(FALSE, status)]
    /\ logins' = Remove(logins, k)
    /\ UNCHANGED <<cycles, last, reports>>

\* const hasData = state.prs.length > 0 || state.commits.length > 0
hasData == state.prs # <<>> \/ state.commits # <<>>

\* the "Write Review" button of the dashboard is enabled
GenerateEnabled ==
    state.step = "dashboard" /\ state.status # "analyzing_ai" /\ hasData

\* handleGenerateReport up to its await; state.user!.login of a null user
\* throws inside the try and the catch records the error at once
handleGenerateReport ==
    /\ GenerateEnabled
    /\ IF state.user.isNull
       THEN /\ state' = [state EXCEPT !.status = "error",
                            !.error = "Failed to generate report using AI."]
            /\ UNCHANGED reports
       ELSE /\ state' = [state EXCEPT !.status = "analyzing_ai", !.error = Null]
            /\ reports' = Append(reports, [login |-> state.user.login])
    /\ UNCHANGED <<cycles, last, logins>>

\* the text the generation model answers with ("" would be an answer
\* without text)
ReportTexts == {"# Review"}

\* mutant: the report is stored and status left as it is
ReportResolve_KeepsStatus(k, text) ==
    /\ k \in DOMAIN reports
    /\ state' = [state EXCEPT !.generatedReport = text]
    /\ reports' = Remove(reports, k)
    /\ UNCHANGED <<cycles, last, logins>>

\* generateSelfReview resolves: response.text || "Failed to generate report."
ReportResolve(k, text) ==
    /\ k \in DOMAIN reports
    /\ state' = [state EXCEPT !.status = "complete",
                    !.generatedReport =
                        IF text = "" THEN "Failed to generate report." ELSE text]
    /\ reports' = Remove(reports, k)
    /\ UNCHANGED <<cycles, last, logins>>

\* generateSelfReview rejects (no API key, or the generation request failed)
ReportReject(k) ==
    /\ k \in DOMAIN reports
    /\ state' = [state EXCEPT !.status = "error",
                    !.error = "Failed to generate report using AI."]
    /\ reports' = Remove(reports, k)
    /\ UNCHANGED <<cycles, last, logins>>

\* handleLogout, the "Log out" button of the dashboard
handleLogout ==
    /\ state.step = "dashboard"
    /\ state' = [state EXCEPT !.step = "login", !.user = NoUser,
                              !.githubToken = "", !.repositories = <<>>,
                              !.selectedRepoIds = {}, !.prs = <<>>,
                              !.commits = <<>>]
    /\ UNCHANGED <<cycles, last, logins, reports>>

(* SpecApp: App from its initial state, under every order of the user's    *)
(* actions and of the completions of the requests in flight.  The          *)
(* identity sees both repositories and has one PR in Repo and one commit   *)
(* in Repo2 in the date range, so that what a cycle writes depends on the  *)
(* selection it captured.                                                  *)

AppCatalogs == {<<Repo, Repo2>>}

AppPrLists == {<<[id |-> 1, repository_url |-> Repo.url]>>}

AppCommitLists == {<<[sha |-> 1, html_url |-> Repo2CommitUrl]>>}

\* what the actions of App leave alone
appFrame == <<svcVars, catVars, chartVars, filteredRepos, clicked, listPrs,
              listSearch, listPage>>

InitApp == SvcInit /\ CatInit /\ AppInit /\ ChartInit /\ UiInit

AppSetToken ==
    /\ \E v \in Tokens : setToken(v)
    /\ UNCHANGED <<superseded, appFrame>>

AppLogin ==
    /\ Len(logins) < MaxLogins
    /\ handleLogin
    /\ UNCHANGED <<superseded, appFrame>>

AppLoginUser ==
    /\ \E k \in DOMAIN logins : LoginUser(k)
    /\ UNCHANGED <<superseded, appFrame>>

AppLoginResolve ==
    /\ \E k \in DOMAIN logins, repos \in AppCatalogs : LoginResolve(k, repos)
    /\ UNCHANGED <<superseded, appFrame>>

AppLoginReject ==
    /\ \E k \in DOMAIN logins, st \in {401} : LoginReject(k, st)
    /\ UNCHANGED <<superseded, appFrame>>

AppToggle ==
    /\ \E id \in {Repo.id, Repo2.id} : toggleRepo(id)
    /\ UNCHANGED <<logins, reports, superseded, appFrame>>

AppEdit ==
    /\ EditRepos
    /\ UNCHANGED <<logins, reports, superseded, appFrame>>

AppStart ==
    /\ Len(cycles) < MaxCycles
    /\ handleFetchStats
    /\ superseded' = Append(superseded, FALSE)
    /\ UNCHANGED <<logins, reports, appFrame>>

\* the PR fetch of a cycle resolves before its commit fetch (SpecReconcile has
\* both orders)
AppFirst ==
    /\ \E k \in DOMAIN cycles : FetchStatsFirst(k, "prs")
    /\ UNCHANGED <<logins, reports, superseded, appFrame>>

AppResolve ==
    /\ \E k \in DOMAIN cycles :
          /\ \E allPrs \in AppPrLists, allCommits \in AppCommitLists :
                FetchStatsResolve(k, allPrs, allCommits)
          /\ superseded' = Remove([i \in DOMAIN superseded |->
                                      superseded[i] \/ i < k], k)
    /\ UNCHANGED <<logins, reports, appFrame>>

AppReject ==
    /\ \E k \in DOMAIN cycles :
          /\ \E st \in {401} : FetchStatsReject(k, st)
          /\ superseded' = Remove(superseded, k)
    /\ UNCHANGED <<logins, reports, appFrame>>

AppGenerate ==
    /\ Len(reports) < MaxReports
    /\ handleGenerateReport
    /\ UNCHANGED <<superseded, appFrame>>

AppReportResolve ==
    /\ \E k \in DOMAIN reports, text \in ReportTexts : ReportResolve(k, text)
    /\ UNCHANGED <<superseded, appFrame>>

AppReportReject ==
    /\ \E k \in DOMAIN reports : ReportReject(k)
    /\ UNCHANGED <<superseded, appFrame>>

AppLogout ==
    /\ handleLogout
    /\ UNCHANGED <<superseded, appFrame>>

NextApp ==
    \/ AppSetToken
    \/ AppLogin
    \/ AppLoginUser
    \/ AppLoginResolve
    \/ AppLoginReject
    \/ AppToggle
    \/ AppEdit
    \/ AppStart
    \/ AppFirst
    \/ AppResolve
    \/ AppReject
    \/ AppGenerate
    \/ AppReportResolve
    \/ AppReportReject
    \/ AppLogout

SpecApp == InitApp /\ [][NextApp]_vars

(* SpecAppLive: SpecApp where every request in flight is eventually        *)
(* answered or fails: each await of a handler is eventually resumed.       *)
SpecAppLive ==
    /\ SpecApp
    /\ WF_vars(AppLoginUser \/ AppLoginReject)
    /\ WF_vars(AppLoginResolve \/ AppLoginReject)
    /\ WF_vars(AppFirst \/ AppReject)
    /\ WF_vars(AppResolve \/ AppReject)
    /\ WF_vars(AppReportResolve \/ AppReportReject)

----------------------------------------------------------------------------
(* Properties of App (SpecApp, SpecAppLive) *)

\* the step ends cycle k of cycles (it resolved or failed)
Ends(k) ==
    /\ k \in DOMAIN cycles
    /\ cycles' = Without(k)
    /\ \A i \in DOMAIN superseded' :
          superseded'[i] => (superseded[IF i < k THEN i ELSE i + 1] \/ i < k)

\* state.prs and state.commits are the lists the last cycle to write them wrote
HoldsLastOutput ==
    /\ last.done
    /\ state.prs = filteredPrs(last.allPrs, last.repositories, last.selectedRepoIds)
    /\ state.commits =
           filteredCommits(last.allCommits, last.repositories, last.selectedRepoIds)

\* C21: while state.prs and state.commits hold the output of a cycle, a step
\* that ends a cycle started before that one leaves both as they are.
C21_StaleNeverOverwrites ==
    [][\A k \in DOMAIN cycles :
          (Ends(k) /\ superseded[k] /\ HoldsLastOutput) =>
              (state'.prs = state.prs /\ state'.commits = state.commits)]_vars

\* C22: the step of handleLogout (the only one from the dashboard to the
\* login screen) leaves user null, the credential empty, and the catalog, the
\* selection, the PRs, the commits and the generated report at their initial
\* empty values.
C22_LogoutClearsSession ==
    [][(state.step = "dashboard" /\ state'.step = "login") =>
          /\ state'.user = NoUser
          /\ state'.githubToken = ""
          /\ state'.repositories = <<>>
          /\ state'.selectedRepoIds = {}
          /\ state'.prs = <<>>
          /\ state'.commits = <<>>
          /\ state'.generatedReport = Null]_vars

\* C25: while a fetch cycle is in flight, neither the refresh button of the
\* dashboard nor the continue button of the repository selector is enabled.
C25_OneCycleInFlight == cycles # <<>> => ~FetchStatsEnabled

\* C26: at the 'login' step state.prs and state.commits are empty.
C26_LoginStepHoldsNoData ==
    state.step = "login" => (state.prs = <<>> /\ state.commits = <<>>)

\* C27: at the 'repo_selection' and 'dashboard' steps an identity is present:
\* user is not null and the credential is not empty.
C27_IdentityPresent ==
    state.step \in {"repo_selection", "dashboard"} =>
        (~state.user.isNull /\ state.githubToken # "")

\* C28: whenever status is 'loading' or 'analyzing_ai', it later is 'idle',
\* 'complete' or 'error', provided every request in flight is eventually
\* answered or fails.
C28_StatusSettles ==
    (state.status \in {"loading", "analyzing_ai"})
        ~> (state.status \in {"idle", "complete", "error"})

\* C28 witness: a login, a fetch cycle and a report generation were started
\* and have all ended; status is 'complete'
C28_Witness ==
    /\ state.status = "complete"
    /\ ~state.user.isNull
    /\ last.done
    /\ state.generatedReport # Null
    /\ logins = <<>> /\ cycles = <<>> /\ reports = <<>>

----------------------------------------------------------------------------
(* RepoSelector: the search filter and "Toggle Visible" *)

Upper == <<"A", "B", "C", "D", "E", "F", "G", "H", "I", "J", "K", "L", "M",
           "N", "O", "P", "Q", "R", "S", "T", "U", "V", "W", "X", "Y", "Z">>

Lower == <<"a", "b", "c", "d", "e", "f", "g", "h", "i", "j", "k", "l", "m",
           "n", "o", "p", "q", "r", "s", "t", "u", "v", "w", "x", "y", "z">>

\* String.prototype.toLowerCase, of a sequence of characters
toLowerCase(str) ==
    [i \in DOMAIN str |->
        IF \E j \in DOMAIN Upper : Upper[j] = str[i]
        THEN Lower[CHOOSE j \in DOMAIN Upper : Upper[j] = str[i]]
        ELSE str[i]]

\* String.prototype.includes
includes(str, sub) ==
    \E i \in 0..(Len(str) - Len(sub)) : SubSeq(str, i + 1, i + Len(sub)) = sub

\* repos.filter(repo => repo.full_name.toLowerCase().includes(search.toLowerCase()))
FilterRepos(repos, search) ==
    Filter(repos, [r \in Range(repos) |->
                      includes(toLowerCase(r.full_name), toLowerCase(search))])

\* setSearch(term), then the render that recomputes filteredRepos
setSearch(term) ==
    /\ state.step = "repo_selection"
    /\ filteredRepos' = FilterRepos(state.repositories, term)
    /\ UNCHANGED <<state, cycles, last>>

\* what one toggleRepo(id) update makes of the selection
Toggled(selected, id) ==
    IF id \in selected THEN selected \ {id} ELSE selected \cup {id}

\* mutant: the visible repositories count as all selected once one of them is
AllVisibleSelected_Some(filtered, selected) ==
    \E i \in DOMAIN filtered : filtered[i].id \in selected

\* filteredRepos.every(r => selectedRepoIds.has(r.id))
AllVisibleSelected(filtered, selected) ==
    \A i \in DOMAIN filtered : filtered[i].id \in selected

\* the forEach of either branch of toggleAll: onToggleRepo(r.id) for each
\* visible r that the selectedRepoIds prop has (deselect) or has not (select),
\* each a functional update of the selection `acc`
RECURSIVE ToggleEach(_, _, _, _)
ToggleEach(filtered, prop, deselect, acc) ==
    IF filtered = <<>> THEN acc
    ELSE LET r   == Head(filtered)
             hit == IF deselect THEN r.id \in prop ELSE r.id \notin prop
         IN  ToggleEach(Tail(filtered), prop, deselect,
                        IF hit THEN Toggled(acc, r.id) ELSE acc)

\* toggleAll, the "Toggle Visible" button
toggleAll ==
    /\ state.step = "repo_selection"
    /\ LET prop == state.selectedRepoIds
       IN  state' = [state EXCEPT !.selectedRepoIds =
                        ToggleEach(filteredRepos, prop,
                                   AllVisibleSelected(filteredRepos, prop), @)]
    /\ UNCHANGED <<cycles, last>>

(* SpecSelector: the selector over a catalog of up to four repositories,   *)
(* with every search term of SearchTerms, clicks on single repositories    *)
(* and "Toggle Visible".                                                   *)

\* "org/repo", "org/repo2", "org/Site", "me/site"
SelectorRepos ==
    << [id |-> 1, full_name |-> <<"o","r","g","/","r","e","p","o">>],
       [id |-> 2, full_name |-> <<"o","r","g","/","r","e","p","o","2">>],
       [id |-> 3, full_name |-> <<"o","r","g","/","S","i","t","e">>],
       [id |-> 4, full_name |-> <<"m","e","/","s","i","t","e">>] >>

SelectorCatalogs == {SubSeq(SelectorRepos, 1, n) : n \in 0..Len(SelectorRepos)}

\* "", "repo", "REPO2", "site", "org", "zzz"
SearchTerms ==
    { <<>>, <<"r","e","p","o">>, <<"R","E","P","O","2">>, <<"s","i","t","e">>,
      <<"o","r","g">>, <<"z","z","z">> }

selectorFrame == <<svcVars, catVars, chartVars, logins, reports, superseded,
                   listPrs, listSearch, listPage>>

InitSelector ==
    /\ SvcInit
    /\ CatInit
    /\ ChartInit
    /\ \E catalog \in SelectorCatalogs :
          /\ state = [step |-> "repo_selection",
                      user |-> [isNull |-> FALSE, login |-> "octocat"],
                      githubToken |-> "token", repositories |-> catalog,
                      selectedRepoIds |-> {}, status |-> "idle", error |-> Null,
                      prs |-> <<>>, commits |-> <<>>, generatedReport |-> Null]
          /\ filteredRepos = FilterRepos(catalog, <<>>)
    /\ cycles = <<>>
    /\ last = NoCycle
    /\ logins = <<>>
    /\ reports = <<>>
    /\ superseded = <<>>
    /\ clicked = "none"
    /\ listPrs = <<>>
    /\ listSearch = <<>>
    /\ listPage = 1

SelectorSearch ==
    /\ \E term \in SearchTerms : setSearch(term)
    /\ clicked' = "search"
    /\ UNCHANGED selectorFrame

\* a click on one of the repositories shown
SelectorToggle ==
    /\ \E i \in DOMAIN filteredRepos : toggleRepo(filteredRepos[i].id)
    /\ clicked' = "toggleRepo"
    /\ UNCHANGED <<filteredRepos, selectorFrame>>

SelectorToggleAll ==
    /\ toggleAll
    /\ clicked' = "toggleAll"
    /\ UNCHANGED <<filteredRepos, selectorFrame>>

NextSelector ==
    \/ SelectorSearch
    \/ SelectorToggle
    \/ SelectorToggleAll

SpecSelector == InitSelector /\ [][NextSelector]_vars

(* Properties of RepoSelector (SpecSelector) *)

\* the ids of the repositories matching the search filter
VisibleIds == {filteredRepos[i].id : i \in DOMAIN filteredRepos}

\* C29: a step of toggleAll leaves none of the repositories matching the
\* filter selected if all of them were, all of them selected otherwise, and
\* the selection of the repositories not matching as it was.
C29_ToggleVisible ==
    [][clicked' = "toggleAll" =>
          LET before == state.selectedRepoIds
              after  == state'.selectedRepoIds
          IN  /\ VisibleIds \subseteq before => after \cap VisibleIds = {}
              /\ ~(VisibleIds \subseteq before) => VisibleIds \subseteq after
              /\ after \ VisibleIds = before \ VisibleIds]_vars

\* C29 witness: with two of four repositories visible and a third selected,
\* "Toggle Visible" has selected the two
C29_Witness ==
    /\ clicked = "toggleAll"
    /\ VisibleIds = {3, 4}
    /\ state.selectedRepoIds = {1, 3, 4}

----------------------------------------------------------------------------
(* PRList: the search filter and the pagination *)

\* const ITEMS_PER_PAGE = 5
ITEMS_PER_PAGE == 5

Digits == <<"0", "1", "2", "3", "4", "5", "6", "7", "8", "9">>

\* String(n), of a natural number
RECURSIVE String(_)
String(n) ==
    IF n < 10 THEN <<Digits[n + 1]>> ELSE String(n \div 10) \o <<Digits[(n % 10) + 1]>>

\* the index of the last "/" of url, 0 if it has none
LastSlash(url) ==
    LET at == {i \in DOMAIN url : url[i] = "/"}
    IN  IF at = {} THEN 0 ELSE CHOOSE i \in at : \A j \in at : j <= i

\* getRepoName: the last of url.split('/')
getRepoName(url) == SubSeq(url, LastSlash(url) + 1, Len(url))

\* the predicate of prs.filter in filteredPrs, term being search.toLowerCase()
PrMatches(pr, term) ==
    \/ includes(toLowerCase(pr.title), term)
    \/ includes(toLowerCase(getRepoName(pr.repository_url)), term)
    \/ includes(String(pr.number), term)

\* filteredPrs
filteredList(prs, search) ==
    Filter(prs, [pr \in Range(prs) |-> PrMatches(pr, toLowerCase(search))])

\* Math.ceil(filteredPrs.length / ITEMS_PER_PAGE)
totalPages ==
    (Len(filteredList(listPrs, listSearch)) + ITEMS_PER_PAGE - 1) \div ITEMS_PER_PAGE

\* paginatedPrs
paginatedPrs ==
    Slice(filteredList(listPrs, listSearch), (listPage - 1) * ITEMS_PER_PAGE,
          listPage * ITEMS_PER_PAGE)

\* the pagination controls are rendered
ControlsShown == Len(filteredList(listPrs, listSearch)) > ITEMS_PER_PAGE

\* handleSearchChange
handleSearchChange(value) ==
    /\ listSearch' = value
    /\ listPage' = 1
    /\ UNCHANGED listPrs

\* handlePrev, behind the "Previous" button
handlePrev ==
    /\ ControlsShown
    /\ listPage # 1
    /\ listPage' = IF listPage > 1 THEN listPage - 1 ELSE listPage
    /\ UNCHANGED <<listPrs, listSearch>>

\* handleNext, behind the "Next" button
handleNext ==
    /\ ControlsShown
    /\ listPage # totalPages
    /\ listPage' = IF listPage < totalPages THEN listPage + 1 ELSE listPage
    /\ UNCHANGED <<listPrs, listSearch>>

\* App renders PRList again with the prs of a new fetch cycle: the component
\* stays mounted and keeps search and currentPage
Rerender(prs) ==
    /\ listPrs' = prs
    /\ UNCHANGED <<listSearch, listPage>>

(* SpecPRList: the list over the first n PRs of a fixed sequence of PRs,   *)
(* n up to MaxListPrs, replaced by another such list at any time.          *)

\* "Fix bug" and "Add feature"
FixBug == <<"F","i","x"," ","b","u","g">>
AddFeature == <<"A","d","d"," ","f","e","a","t","u","r","e">>

\* "https://api.host/repos/org/repo" and ".../repo2", as character sequences
RepoApiUrl ==
    <<"h","t","t","p","s",":","/","/","a","p","i",".","h","o","s","t","/",
      "r","e","p","o","s","/","o","r","g","/","r","e","p","o">>
Repo2ApiUrl == RepoApiUrl \o <<"2">>

\* the k-th PR fetched: number k, fixes in repo at odd k, features in repo2
ListedPr(k) ==
    [number |-> k,
     title |-> IF k % 2 = 1 THEN FixBug ELSE AddFeature,
     repository_url |-> IF k % 2 = 1 THEN RepoApiUrl ELSE Repo2ApiUrl]

ListedPrs == {[k \in 1..n |-> ListedPr(k)] : n \in 0..MaxListPrs}

\* "", "FIX", "repo2", "1", "zzz"
ListTerms ==
    { <<>>, <<"F","I","X">>, <<"r","e","p","o","2">>, <<"1">>, <<"z","z","z">> }

listFrame == <<svcVars, catVars, appVars, chartVars, logins, reports, superseded,
               filteredRepos, clicked>>

InitPRList ==
    /\ SvcInit
    /\ CatInit
    /\ AppInit
    /\ ChartInit
    /\ logins = <<>>
    /\ reports = <<>>
    /\ superseded = <<>>
    /\ filteredRepos = <<>>
    /\ clicked = "none"
    /\ listPrs \in ListedPrs
    /\ listSearch = <<>>
    /\ listPage = 1

ListSearch ==
    /\ \E value \in ListTerms : handleSearchChange(value)
    /\ UNCHANGED listFrame

ListPrev == handlePrev /\ UNCHANGED listFrame

ListNext == handleNext /\ UNCHANGED listFrame

ListRerender ==
    /\ \E prs \in ListedPrs : Rerender(prs)
    /\ UNCHANGED listFrame

NextPRList ==
    \/ ListSearch
    \/ ListPrev
    \/ ListNext
    \/ ListRerender

SpecPRList == InitPRList /\ [][NextPRList]_vars

(* Properties of PRList (SpecPRList) *)

\* C30: 1 <= currentPage <= max(1, totalPages), and a non-empty filtered list
\* renders a non-empty page.
C30_PageInRange ==
    /\ 1 <= listPage
    /\ listPage <= (IF totalPages > 1 THEN totalPages ELSE 1)
    /\ filteredList(listPrs, listSearch) # <<>> => paginatedPrs # <<>>

====
